---- MODULE Spec2Model ----
(***************************************************************************)
(* State machine of autorally_core's StateEstimator                        *)
(* (src/autorally_core/src/StateEstimator/StateEstimator.cpp).             *)
(*                                                                         *)
(* Two threads run the node.  The ROS spin thread dispatches the three     *)
(* subscriber callbacks (GpsCallback, ImuCallback, WheelOdomCallback) one  *)
(* at a time; the optimizer thread runs GpsHelper.  They share the three   *)
(* BlockingQueues and the (m_optimizedState, m_optimizedBias,              *)
(* m_optimizedTime) cell guarded by m_optimizedStateMutex.                 *)
(*                                                                         *)
(* Time is counted in ticks of 5 ms, so the source's 0.005 s is 1.  A      *)
(* message is represented by its header stamp; stamp 0 stands for "no      *)
(* message" (a NULL pointer).  A NavState / bias value is represented by   *)
(* the epoch key whose solve produced it (0: the constructor's value).     *)
(***************************************************************************)
EXTENDS Integers, Sequences, FiniteSets, TLC

\* ------------------------------------------------------------------ bounds
\* Largest header stamp the sensor streams produce in the specification Spec.
MaxTime == 4
\* Largest header stamp in the specification FairSpec.
LiveTime == 2
\* QueueSpec starts with every queue QSlack short of its capacity.
QSlack == 0

\* ------------------------------------------------------- program constants
\* m_gpsOptQ(40), m_ImuOptQ(400), m_odomOptQ(100)
GpsQCapOff == 40 + 1
GpsQCap == 40
ImuQCap == 400
OdomQCap == 100
\* dt used for the very first inertial sample, 0.005 s = 1 tick
FirstDt == 1

VARIABLES
  rosOk,              \* ros::ok()
  env,                \* per stream: last stamp produced and the horizon (largest stamp)
  m_gpsOptQ, m_ImuOptQ, m_odomOptQ,   \* the three BlockingQueues (sequences of stamps)
  dropped,            \* per queue: pushNonBlocking calls that returned false
  warned,             \* per queue: "Dropping ... due to full queue" warnings
  mutex,              \* holder of m_optimizedStateMutex: "free", "imu", "helper"
  m_optimizedState, m_optimizedBias, m_optimizedTime,   \* the shared cell
  epochTime,          \* history: epochTime[k] = curTime of the cycle that solved epoch k
  cb,                 \* ImuCallback: program counter and locals
  m_lastImuT, m_maxQSize, m_imuMeasurements, m_imuQPrevTime, m_imuPredictor,
  posePub, timePub,   \* messages published on "pose" and "time_delays"
  h,                  \* GpsHelper: program counter and locals
  m_gotFirstFix, m_lastIMU, m_lastImuTgps,
  m_poseVelKey, m_biasKey, m_previousBias, m_prevPose,
  m_isam              \* the backend: keys inserted (in order) and factors added

envVars   == <<rosOk, env>>
pushLog   == <<dropped, warned>>
queueVars == <<m_gpsOptQ, m_ImuOptQ, m_odomOptQ, pushLog>>
cellVars  == <<m_optimizedState, m_optimizedBias, m_optimizedTime, epochTime>>
imuVars   == <<cb, m_lastImuT, m_maxQSize, m_imuMeasurements, m_imuQPrevTime,
               m_imuPredictor, posePub, timePub>>
helperMembers == <<m_gotFirstFix, m_lastIMU, m_lastImuTgps, m_poseVelKey, m_biasKey,
                   m_previousBias, m_prevPose, m_isam>>
helperVars == <<h, helperMembers>>
imuMembers == <<m_lastImuT, m_maxQSize, m_imuMeasurements, m_imuQPrevTime,
                m_imuPredictor, posePub, timePub>>
vars == <<envVars, queueVars, mutex, cellVars, imuVars, helperVars>>

\* ------------------------------------------------------------ BlockingQueue
\* pushNonBlocking: enqueue when capacity remains, else refuse.
PushOk(q, cap) == Len(q) < cap
PushNonBlocking(q, cap, x) == IF PushOk(q, cap) THEN Append(q, x) ELSE q
\* popBlocking returns only when an element is available.
CanPop(q) == Len(q) > 0
Front(q) == q[1]
Back(q) == q[Len(q)]

Range(s) == {s[i] : i \in 1..Len(s)}
SeqFromTo(a, b) == [i \in 1..(IF b >= a THEN b - a + 1 ELSE 0) |-> a + i - 1]

\* ------------------------------------------------------------------- Init
cbIdle == [pc |-> "idle", imu |-> 0, dt |-> 0,
           optimizedState |-> 0, optimizedBias |-> 0, optimizedTime |-> 0]

hStart == [pc |-> "top", fix |-> 0, usingGPS |-> FALSE, usingOdom |-> FALSE,
           curTime |-> 0, prevTime |-> 0,
           \* history: queue depths at trigger selection, newest fix queued then
           sawGps |-> 0, sawOdom |-> 0, sawFix |-> 0,
           firstOdom |-> 0, lastOdom |-> 0, pre_int_data |-> <<>>,
           newFactors |-> {},
           \* history: the cell and the key when the iteration began; whether the
           \* backend call of the cycle returned after the shutdown signal
           cellAtTop |-> <<0, 0, 0>>, keyAtTop |-> 0, lateCycle |-> FALSE]

\* State after the constructor has run and the optimizer thread was created.
InitCommon ==
  /\ rosOk = TRUE
  /\ dropped = [gps |-> 0, imu |-> 0, odom |-> 0]
  /\ warned = [gps |-> 0, imu |-> 0, odom |-> 0]
  /\ mutex = "free"
  /\ m_optimizedState = 0
  /\ m_optimizedBias = 0
  /\ m_optimizedTime = 0
  /\ epochTime = <<>>
  /\ cb = cbIdle
  /\ m_imuQPrevTime = 0
  /\ m_imuPredictor = <<>>
  /\ posePub = <<>>
  /\ timePub = <<>>
  /\ h = hStart
  /\ m_gotFirstFix = FALSE
  /\ m_lastIMU = 0
  /\ m_lastImuTgps = 0
  /\ m_poseVelKey = 0
  /\ m_biasKey = 0
  /\ m_previousBias = 0
  /\ m_prevPose = 0
  /\ m_isam = [keys |-> <<>>, factors |-> {}, vel0 |-> -1]

Init ==
  /\ InitCommon
  /\ env = [gps |-> 0, imu |-> 0, odom |-> 0,
            gpsMax |-> MaxTime, imuMax |-> MaxTime, odomMax |-> MaxTime]
  /\ m_gpsOptQ = <<>>
  /\ m_ImuOptQ = <<>>
  /\ m_odomOptQ = <<>>
  /\ m_lastImuT = 0
  /\ m_maxQSize = 0
  /\ m_imuMeasurements = <<>>

\* A stream's messages are stamped one tick apart, up to the horizon ("timestamps
\* are monotonic within each stream").  How the streams lie relative to each other
\* comes from the order in which the callbacks are dispatched.
NextStamps(last, horizon) == IF last < horizon THEN {last + 1} ELSE {}

\* ------------------------------------------------------------- callbacks
\* The spin thread dispatches one callback at a time, while ros::ok().
CanDispatch == rosOk /\ cb.pc = "idle"

GpsCallback ==
  /\ CanDispatch
  /\ \E s \in NextStamps(env.gps, env.gpsMax) :
       /\ env' = [env EXCEPT !.gps = s]
       /\ m_gpsOptQ' = PushNonBlocking(m_gpsOptQ, GpsQCap, s)
       /\ IF PushOk(m_gpsOptQ, GpsQCap)
          THEN UNCHANGED pushLog
          ELSE /\ dropped' = [dropped EXCEPT !.gps = @ + 1]
               /\ warned' = [warned EXCEPT !.gps = @ + 1]
  /\ UNCHANGED <<rosOk, m_ImuOptQ, m_odomOptQ, mutex, cellVars, imuVars, helperVars>>

WheelOdomCallback ==
  /\ CanDispatch
  /\ \E s \in NextStamps(env.odom, env.odomMax) :
       /\ env' = [env EXCEPT !.odom = s]
       /\ m_odomOptQ' = PushNonBlocking(m_odomOptQ, OdomQCap, s)
       /\ IF PushOk(m_odomOptQ, OdomQCap)
          THEN UNCHANGED pushLog
          ELSE /\ dropped' = [dropped EXCEPT !.odom = @ + 1]
               /\ UNCHANGED warned
  /\ UNCHANGED <<rosOk, m_gpsOptQ, m_ImuOptQ, mutex, cellVars, imuVars, helperVars>>

\* ImuCallback, lines 503-516: dt, m_lastImuT, the queue-size statistic.
ImuBegin ==
  /\ CanDispatch
  /\ \E s \in NextStamps(env.imu, env.imuMax) :
       /\ env' = [env EXCEPT !.imu = s]
       /\ cb' = [cb EXCEPT !.pc = "push", !.imu = s,
                           !.dt = IF m_lastImuT = 0 THEN FirstDt ELSE s - m_lastImuT]
       /\ m_lastImuT' = s
  /\ m_maxQSize' = IF Len(m_ImuOptQ) > m_maxQSize THEN Len(m_ImuOptQ) ELSE m_maxQSize
  /\ UNCHANGED <<rosOk, queueVars, mutex, cellVars, m_imuMeasurements,
                 m_imuQPrevTime, m_imuPredictor, posePub, timePub, helperVars>>

\* ImuCallback, lines 517-522: hand the sample to the optimizer thread, keep a private copy.
ImuPush ==
  /\ cb.pc = "push"
  /\ m_ImuOptQ' = PushNonBlocking(m_ImuOptQ, ImuQCap, cb.imu)
  /\ IF PushOk(m_ImuOptQ, ImuQCap)
     THEN UNCHANGED pushLog
     ELSE /\ dropped' = [dropped EXCEPT !.imu = @ + 1]
          /\ warned' = [warned EXCEPT !.imu = @ + 1]
  /\ m_imuMeasurements' = Append(m_imuMeasurements, cb.imu)
  /\ cb' = [cb EXCEPT !.pc = "lock"]
  /\ UNCHANGED <<envVars, m_gpsOptQ, m_odomOptQ, mutex, cellVars, m_lastImuT, m_maxQSize,
                 m_imuQPrevTime, m_imuPredictor, posePub, timePub, helperVars>>

\* line 528: boost::mutex::scoped_lock guard(m_optimizedStateMutex)
ImuLockNoMutex ==
  /\ cb.pc = "lock"
  /\ cb' = [cb EXCEPT !.pc = "copyState"]
  /\ UNCHANGED <<envVars, queueVars, mutex, cellVars, imuMembers, helperVars>>

ImuLock ==
  /\ cb.pc = "lock"
  /\ mutex = "free"
  /\ mutex' = "imu"
  /\ cb' = [cb EXCEPT !.pc = "copyState"]
  /\ UNCHANGED <<envVars, queueVars, cellVars, imuMembers, helperVars>>

\* line 529
ImuCopyState ==
  /\ cb.pc = "copyState"
  /\ cb' = [cb EXCEPT !.pc = "copyBias", !.optimizedState = m_optimizedState]
  /\ UNCHANGED <<envVars, queueVars, mutex, cellVars, imuMembers, helperVars>>

\* line 530
ImuCopyBias ==
  /\ cb.pc = "copyBias"
  /\ cb' = [cb EXCEPT !.pc = "copyTime", !.optimizedBias = m_optimizedBias]
  /\ UNCHANGED <<envVars, queueVars, mutex, cellVars, imuMembers, helperVars>>

\* line 531
ImuCopyTime ==
  /\ cb.pc = "copyTime"
  /\ cb' = [cb EXCEPT !.pc = "unlock", !.optimizedTime = m_optimizedTime]
  /\ UNCHANGED <<envVars, queueVars, mutex, cellVars, imuMembers, helperVars>>

\* line 532: the guard goes out of scope
ImuUnlockKeepsMutex ==
  /\ cb.pc = "unlock"
  /\ cb' = [cb EXCEPT !.pc = "predict"]
  /\ UNCHANGED <<envVars, queueVars, mutex, cellVars, imuMembers, helperVars>>

ImuUnlock ==
  /\ cb.pc = "unlock"
  /\ mutex' = IF mutex = "imu" THEN "free" ELSE mutex
  /\ cb' = [cb EXCEPT !.pc = "predict"]
  /\ UNCHANGED <<envVars, queueVars, cellVars, imuMembers, helperVars>>

\* lines 538-544: the number of leading buffered samples stamped before t.
NumStaleNone(buf, t) == 0
RECURSIVE NumStale(_, _)
NumStale(buf, t) ==
  IF buf # <<>> /\ Front(buf) < t THEN 1 + NumStale(Tail(buf), t) ELSE 0

\* lines 549-559: resetIntegration, then integrate every buffered sample in order;
\* prev is m_imuQPrevTime.  The result is the sequence of integrated (stamp, dt).
RECURSIVE IntegrateAll(_, _)
IntegrateAll(buf, prev) ==
  IF buf = <<>> THEN <<>>
  ELSE <<[stamp |-> Front(buf), dt |-> Front(buf) - prev]>>
         \o IntegrateAll(Tail(buf), Front(buf))

\* line 533
ReturnsEarlyNever(t) == FALSE
ReturnsEarlyAlways(t) == TRUE
ReturnsEarly(t) == t = 0

\* line 546: the branch that rebuilds the delta
Rebuild(numDiscarded, t) == numDiscarded > 0

\* ImuCallback, lines 533-603.
ImuPredict ==
  /\ cb.pc = "predict"
  /\ IF ReturnsEarly(cb.optimizedTime)
     THEN UNCHANGED <<m_imuMeasurements, m_imuQPrevTime, m_imuPredictor, posePub, timePub>>
     ELSE LET n == NumStale(m_imuMeasurements, cb.optimizedTime)
              kept == SubSeq(m_imuMeasurements, n + 1, Len(m_imuMeasurements))
              prev == IF n > 0 THEN m_imuMeasurements[n] ELSE m_imuQPrevTime
              delta == IF Rebuild(n, cb.optimizedTime)
                       THEN IntegrateAll(kept, prev)
                       ELSE Append(m_imuPredictor, [stamp |-> cb.imu, dt |-> cb.dt])
          IN /\ m_imuMeasurements' = kept
             /\ m_imuQPrevTime' = IF Rebuild(n, cb.optimizedTime) /\ kept # <<>>
                                  THEN Back(kept) ELSE prev
             /\ m_imuPredictor' = delta
             /\ posePub' = Append(posePub,
                   [stamp |-> cb.imu, state |-> cb.optimizedState,
                    bias |-> cb.optimizedBias, time |-> cb.optimizedTime,
                    delta |-> delta, buffer |-> kept])
             /\ timePub' = Append(timePub,
                   [x |-> cb.imu, z |-> cb.imu - cb.optimizedTime])
  /\ cb' = cbIdle
  /\ UNCHANGED <<envVars, queueVars, mutex, cellVars, m_lastImuT, m_maxQSize, helperVars>>

ImuCallback ==
  \/ ImuBegin \/ ImuPush \/ ImuLock \/ ImuCopyState \/ ImuCopyBias \/ ImuCopyTime
  \/ ImuUnlock \/ ImuPredict

\* --------------------------------------------------------------- GpsHelper
\* Factors of the batch a cycle submits; from/to are epoch keys.
PriorFactors ==
  { [type |-> "priorPose", from |-> 0, to |-> 0],
    [type |-> "priorVel",  from |-> 0, to |-> 0],
    [type |-> "priorBias", from |-> 0, to |-> 0],
    [type |-> "imuPgps",   from |-> 0, to |-> 0] }

\* lines 295-303: loop test, per-iteration locals, first half of trigger selection.
HelperTopOdomFirst ==
  /\ h.pc = "top"
  /\ IF ~rosOk
     THEN h' = [h EXCEPT !.pc = "done"]
     ELSE h' = [h EXCEPT !.fix = 0, !.usingGPS = FALSE, !.usingOdom = FALSE,
                         !.firstOdom = 0, !.lastOdom = 0,
                         !.newFactors = {}, !.pre_int_data = <<>>,
                         !.sawGps = Len(m_gpsOptQ), !.sawOdom = 0,
                         !.sawFix = IF m_gpsOptQ = <<>> THEN 0 ELSE Back(m_gpsOptQ),
                         !.cellAtTop =
                            <<m_optimizedState, m_optimizedBias, m_optimizedTime>>,
                         !.keyAtTop = m_poseVelKey, !.lateCycle = FALSE,
                         !.pc = IF ~m_gotFirstFix
                                   \/ (Len(m_gpsOptQ) > 0 /\ Len(m_odomOptQ) = 0)
                                THEN "popFix" ELSE "selOdom"]
  /\ UNCHANGED <<envVars, queueVars, mutex, cellVars, imuVars, helperMembers>>

HelperTop ==
  /\ h.pc = "top"
  /\ IF ~rosOk
     THEN h' = [h EXCEPT !.pc = "done"]
     ELSE h' = [h EXCEPT !.fix = 0, !.usingGPS = FALSE, !.usingOdom = FALSE,
                         !.firstOdom = 0, !.lastOdom = 0,
                         !.newFactors = {}, !.pre_int_data = <<>>,
                         !.sawGps = Len(m_gpsOptQ), !.sawOdom = 0,
                         !.sawFix = IF m_gpsOptQ = <<>> THEN 0 ELSE Back(m_gpsOptQ),
                         !.cellAtTop =
                            <<m_optimizedState, m_optimizedBias, m_optimizedTime>>,
                         !.keyAtTop = m_poseVelKey, !.lateCycle = FALSE,
                         !.pc = IF ~m_gotFirstFix \/ Len(m_gpsOptQ) > 0
                                THEN "popFix" ELSE "selOdom"]
  /\ UNCHANGED <<envVars, queueVars, mutex, cellVars, imuVars, helperMembers>>

\* lines 307-308: fix = m_gpsOptQ.popBlocking()
HelperPopFix ==
  /\ h.pc = "popFix"
  /\ CanPop(m_gpsOptQ)
  /\ m_gpsOptQ' = Tail(m_gpsOptQ)
  /\ h' = [h EXCEPT !.fix = Front(m_gpsOptQ), !.curTime = Front(m_gpsOptQ),
                    !.pc = "drainFix"]
  /\ UNCHANGED <<envVars, m_ImuOptQ, m_odomOptQ, pushLog, mutex, cellVars, imuVars,
                 helperMembers>>

\* lines 309-314: keep only the latest queued fix
HelperDrainFixKeepsFirst ==
  /\ h.pc = "drainFix"
  /\ IF Len(m_gpsOptQ) > 0
     THEN /\ m_gpsOptQ' = Tail(m_gpsOptQ)
          /\ UNCHANGED h
     ELSE /\ h' = [h EXCEPT !.usingGPS = TRUE,
                            !.pc = IF ~m_gotFirstFix THEN "boot" ELSE "tossOdom"]
          /\ UNCHANGED m_gpsOptQ
  /\ UNCHANGED <<envVars, m_ImuOptQ, m_odomOptQ, pushLog, mutex, cellVars, imuVars,
                 helperMembers>>

HelperDrainFix ==
  /\ h.pc = "drainFix"
  /\ IF Len(m_gpsOptQ) > 0
     THEN /\ m_gpsOptQ' = Tail(m_gpsOptQ)
          /\ h' = [h EXCEPT !.fix = Front(m_gpsOptQ), !.curTime = Front(m_gpsOptQ)]
     ELSE /\ h' = [h EXCEPT !.usingGPS = TRUE,
                            !.pc = IF ~m_gotFirstFix THEN "boot" ELSE "tossOdom"]
          /\ UNCHANGED m_gpsOptQ
  /\ UNCHANGED <<envVars, m_ImuOptQ, m_odomOptQ, pushLog, mutex, cellVars, imuVars,
                 helperMembers>>

\* lines 316-321 (and 323, 385 when neither trigger is chosen)
HelperSelOdom ==
  /\ h.pc = "selOdom"
  /\ IF m_gotFirstFix /\ Len(m_odomOptQ) > 0
     THEN h' = [h EXCEPT !.curTime = Back(m_odomOptQ), !.usingOdom = TRUE,
                         !.sawOdom = Len(m_odomOptQ), !.pc = "tossOdom"]
     ELSE h' = [h EXCEPT !.pc = "top"]
  /\ UNCHANGED <<envVars, queueVars, mutex, cellVars, imuVars, helperMembers>>

\* lines 323-371: the first fix: priors on X(0), V(0), B(0), G(0) go to the backend.
HelperBoot ==
  /\ h.pc = "boot"
  /\ m_gotFirstFix' = TRUE
  /\ m_prevPose' = 0
  /\ m_previousBias' = 0
  /\ \E fault \in BOOLEAN :
       IF fault
       THEN /\ h' = [h EXCEPT !.pc = "terminate"]
            /\ UNCHANGED m_isam
       ELSE /\ h' = [h EXCEPT !.pc = "bootPopImu", !.newFactors = PriorFactors]
            /\ m_isam' = [keys |-> Append(m_isam.keys, 0),
                          factors |-> m_isam.factors \cup PriorFactors,
                          vel0 |-> 0]
  /\ UNCHANGED <<envVars, queueVars, mutex, cellVars, imuVars, m_lastIMU, m_lastImuTgps,
                 m_poseVelKey, m_biasKey>>

\* lines 373-375
HelperBootPopImu ==
  /\ h.pc = "bootPopImu"
  /\ CanPop(m_ImuOptQ)
  /\ m_lastIMU' = Front(m_ImuOptQ)
  /\ m_lastImuTgps' = Front(m_ImuOptQ) - FirstDt
  /\ m_ImuOptQ' = Tail(m_ImuOptQ)
  /\ h' = [h EXCEPT !.pc = "bootImuLoop"]
  /\ UNCHANGED <<envVars, m_gpsOptQ, m_odomOptQ, pushLog, mutex, cellVars, imuVars,
                 m_gotFirstFix, m_poseVelKey, m_biasKey, m_previousBias, m_prevPose, m_isam>>

\* lines 376-382: read inertial samples up to the first fix
HelperBootImuLoop ==
  /\ h.pc = "bootImuLoop"
  /\ IF m_lastIMU < h.fix
     THEN /\ CanPop(m_ImuOptQ)
          /\ m_lastImuTgps' = m_lastIMU
          /\ m_lastIMU' = Front(m_ImuOptQ)
          /\ m_ImuOptQ' = Tail(m_ImuOptQ)
          /\ UNCHANGED h
     ELSE /\ h' = [h EXCEPT !.prevTime = h.curTime, !.pc = "sleep"]
          /\ UNCHANGED <<m_lastImuTgps, m_lastIMU, m_ImuOptQ>>
  /\ UNCHANGED <<envVars, m_gpsOptQ, m_odomOptQ, pushLog, mutex, cellVars, imuVars,
                 m_gotFirstFix, m_poseVelKey, m_biasKey, m_previousBias, m_prevPose, m_isam>>

\* lines 383 and 496: loopRate.sleep() returns
HelperSleep ==
  /\ h.pc = "sleep"
  /\ h' = [h EXCEPT !.pc = "top"]
  /\ UNCHANGED <<envVars, queueVars, mutex, cellVars, imuVars, helperMembers>>

\* lines 394-395: toss wheel odometry stamped before the last optimized time
HelperTossOdom ==
  /\ h.pc = "tossOdom"
  /\ IF Len(m_odomOptQ) > 0 /\ Front(m_odomOptQ) < h.prevTime
     THEN /\ m_odomOptQ' = Tail(m_odomOptQ)
          /\ UNCHANGED h
     ELSE /\ h' = [h EXCEPT !.pc = "popFirstOdom"]
          /\ UNCHANGED m_odomOptQ
  /\ UNCHANGED <<envVars, m_gpsOptQ, m_ImuOptQ, pushLog, mutex, cellVars, imuVars,
                 helperMembers>>

\* line 397
HelperPopFirstOdom ==
  /\ h.pc = "popFirstOdom"
  /\ CanPop(m_odomOptQ)
  /\ m_odomOptQ' = Tail(m_odomOptQ)
  /\ h' = [h EXCEPT !.firstOdom = Front(m_odomOptQ), !.pc = "popLastOdom"]
  /\ UNCHANGED <<envVars, m_gpsOptQ, m_ImuOptQ, pushLog, mutex, cellVars, imuVars,
                 helperMembers>>

\* lines 398-401
HelperPopLastOdom ==
  /\ h.pc = "popLastOdom"
  /\ CanPop(m_odomOptQ)
  /\ m_odomOptQ' = Tail(m_odomOptQ)
  /\ h' = [h EXCEPT !.lastOdom = Front(m_odomOptQ),
                    !.pc = IF ~h.usingGPS \/ Front(m_odomOptQ) < h.curTime
                           THEN "odomLoop" ELSE "imuLoop"]
  /\ UNCHANGED <<envVars, m_gpsOptQ, m_ImuOptQ, pushLog, mutex, cellVars, imuVars,
                 helperMembers>>

\* lines 415-417: BetweenFactor<Pose3> odomFactor(X(m_poseVelKey), X(m_poseVelKey), ...)
OdomFactor == [type |-> "odom", from |-> m_poseVelKey, to |-> m_poseVelKey]

\* lines 404-418
HelperOdomLoop ==
  /\ h.pc = "odomLoop"
  /\ IF Len(m_odomOptQ) # 0 /\ Front(m_odomOptQ) < h.curTime
     THEN /\ m_odomOptQ' = Tail(m_odomOptQ)
          /\ h' = [h EXCEPT !.lastOdom = Front(m_odomOptQ)]
     ELSE /\ h' = [h EXCEPT !.newFactors = h.newFactors \cup {OdomFactor},
                            !.pc = "imuLoop"]
          /\ UNCHANGED m_odomOptQ
  /\ UNCHANGED <<envVars, m_gpsOptQ, m_ImuOptQ, pushLog, mutex, cellVars, imuVars,
                 helperMembers>>

\* lines 421-430: integrate the inertial samples stamped before curTime
HelperImuLoop ==
  /\ h.pc = "imuLoop"
  /\ IF m_lastIMU < h.curTime
     THEN /\ CanPop(m_ImuOptQ)
          /\ h' = [h EXCEPT !.pre_int_data =
                     Append(h.pre_int_data,
                            [stamp |-> m_lastIMU, dt |-> m_lastIMU - m_lastImuTgps])]
          /\ m_lastImuTgps' = m_lastIMU
          /\ m_lastIMU' = Front(m_ImuOptQ)
          /\ m_ImuOptQ' = Tail(m_ImuOptQ)
     ELSE /\ h' = [h EXCEPT !.pc = "update"]
          /\ UNCHANGED <<m_lastImuTgps, m_lastIMU, m_ImuOptQ>>
  /\ UNCHANGED <<envVars, m_gpsOptQ, m_odomOptQ, pushLog, mutex, cellVars, imuVars,
                 m_gotFirstFix, m_poseVelKey, m_biasKey, m_previousBias, m_prevPose, m_isam>>

\* lines 432-455: the factors every cycle adds, and those of an absolute fix
CycleFactors ==
  { [type |-> "imu",  from |-> m_poseVelKey, to |-> m_poseVelKey + 1],
    [type |-> "bias", from |-> m_biasKey,    to |-> m_biasKey + 1] }
  \cup (IF h.usingGPS
        THEN { [type |-> "gps",     from |-> m_poseVelKey + 1, to |-> m_poseVelKey + 1],
               [type |-> "imuPgps", from |-> m_poseVelKey + 1, to |-> m_poseVelKey + 1] }
        ELSE {})

\* lines 431-468: build the batch, m_isam->update, calculateEstimate.  The backend
\* may throw; nothing in GpsHelper catches, so the exception ends the thread function.
HelperUpdateKeysFirst ==
  /\ h.pc = "update"
  /\ m_poseVelKey' = m_poseVelKey + 1
  /\ m_biasKey' = m_biasKey + 1
  /\ \E fault \in BOOLEAN :
       IF fault
       THEN /\ h' = [h EXCEPT !.pc = "terminate",
                              !.newFactors = h.newFactors \cup CycleFactors]
            /\ UNCHANGED <<m_isam, m_prevPose, m_previousBias, epochTime>>
       ELSE /\ h' = [h EXCEPT !.pc = "lock", !.lateCycle = ~rosOk,
                              !.newFactors = h.newFactors \cup CycleFactors]
            /\ m_isam' = [m_isam EXCEPT
                            !.keys = Append(m_isam.keys, m_poseVelKey + 1),
                            !.factors = m_isam.factors \cup h.newFactors \cup CycleFactors]
            /\ m_prevPose' = m_poseVelKey + 1
            /\ m_previousBias' = m_biasKey + 1
            /\ epochTime' = Append(epochTime, h.curTime)
  /\ UNCHANGED <<envVars, queueVars, mutex, m_optimizedState, m_optimizedBias,
                 m_optimizedTime, imuVars, m_gotFirstFix, m_lastIMU, m_lastImuTgps>>

HelperUpdate ==
  /\ h.pc = "update"
  /\ \E fault \in BOOLEAN :
       IF fault
       THEN /\ h' = [h EXCEPT !.pc = "terminate",
                              !.newFactors = h.newFactors \cup CycleFactors]
            /\ UNCHANGED <<m_isam, m_prevPose, m_previousBias, epochTime>>
       ELSE /\ h' = [h EXCEPT !.pc = "lock", !.lateCycle = ~rosOk,
                              !.newFactors = h.newFactors \cup CycleFactors]
            /\ m_isam' = [m_isam EXCEPT
                            !.keys = Append(m_isam.keys, m_poseVelKey + 1),
                            !.factors = m_isam.factors \cup h.newFactors \cup CycleFactors]
            /\ m_prevPose' = m_poseVelKey + 1
            /\ m_previousBias' = m_biasKey + 1
            /\ epochTime' = Append(epochTime, h.curTime)
  /\ UNCHANGED <<envVars, queueVars, mutex, m_optimizedState, m_optimizedBias,
                 m_optimizedTime, imuVars, m_gotFirstFix, m_lastIMU, m_lastImuTgps,
                 m_poseVelKey, m_biasKey>>

\* line 471: boost::mutex::scoped_lock guard(m_optimizedStateMutex)
HelperLock ==
  /\ h.pc = "lock"
  /\ mutex = "free"
  /\ mutex' = "helper"
  /\ h' = [h EXCEPT !.pc = "writeState"]
  /\ UNCHANGED <<envVars, queueVars, cellVars, imuVars, helperMembers>>

\* line 472
HelperWriteState ==
  /\ h.pc = "writeState"
  /\ m_optimizedState' = m_prevPose
  /\ h' = [h EXCEPT !.pc = "writeBias"]
  /\ UNCHANGED <<envVars, queueVars, mutex, m_optimizedBias, m_optimizedTime, epochTime,
                 imuVars, helperMembers>>

\* line 473
HelperWriteBias ==
  /\ h.pc = "writeBias"
  /\ m_optimizedBias' = m_previousBias
  /\ h' = [h EXCEPT !.pc = "writeTime"]
  /\ UNCHANGED <<envVars, queueVars, mutex, m_optimizedState, m_optimizedTime, epochTime,
                 imuVars, helperMembers>>

\* line 474
HelperWriteTime ==
  /\ h.pc = "writeTime"
  /\ m_optimizedTime' = h.curTime
  /\ h' = [h EXCEPT !.pc = "unlock"]
  /\ UNCHANGED <<envVars, queueVars, mutex, m_optimizedState, m_optimizedBias, epochTime,
                 imuVars, helperMembers>>

\* line 475: the guard goes out of scope
HelperUnlockKeepsMutex ==
  /\ h.pc = "unlock"
  /\ h' = [h EXCEPT !.pc = "finish"]
  /\ UNCHANGED <<envVars, queueVars, mutex, cellVars, imuVars, helperMembers>>

HelperUnlock ==
  /\ h.pc = "unlock"
  /\ mutex' = "free"
  /\ h' = [h EXCEPT !.pc = "finish"]
  /\ UNCHANGED <<envVars, queueVars, cellVars, imuVars, helperMembers>>

\* lines 477-495: publish the biases, advance the keys, remember the time
HelperFinishSkipsBiasKey ==
  /\ h.pc = "finish"
  /\ m_poseVelKey' = m_poseVelKey + 1
  /\ h' = [h EXCEPT !.prevTime = h.curTime, !.pc = "sleep"]
  /\ UNCHANGED <<envVars, queueVars, mutex, cellVars, imuVars, m_gotFirstFix, m_lastIMU,
                 m_lastImuTgps, m_previousBias, m_prevPose, m_isam, m_biasKey>>

HelperFinish ==
  /\ h.pc = "finish"
  /\ m_biasKey' = m_biasKey + 1
  /\ m_poseVelKey' = m_poseVelKey + 1
  /\ h' = [h EXCEPT !.prevTime = h.curTime, !.pc = "sleep"]
  /\ UNCHANGED <<envVars, queueVars, mutex, cellVars, imuVars, m_gotFirstFix, m_lastIMU,
                 m_lastImuTgps, m_previousBias, m_prevPose, m_isam>>

GpsHelper ==
  \/ HelperTop \/ HelperPopFix \/ HelperDrainFix \/ HelperSelOdom
  \/ HelperBoot \/ HelperBootPopImu \/ HelperBootImuLoop \/ HelperSleep
  \/ HelperTossOdom \/ HelperPopFirstOdom \/ HelperPopLastOdom \/ HelperOdomLoop
  \/ HelperImuLoop \/ HelperUpdate
  \/ HelperLock \/ HelperWriteState \/ HelperWriteBias \/ HelperWriteTime
  \/ HelperUnlock \/ HelperFinish

\* ------------------------------------------------------------ process life
\* The shutdown signal: ros::ok() turns false; ros::spin() returns once the running
\* callback has ended and dispatches no further callback.  The process may end at
\* any later moment (main returns; std::terminate after an exception left the
\* optimizer thread): a behaviour that takes no further step.
Shutdown ==
  /\ rosOk
  /\ rosOk' = FALSE
  /\ UNCHANGED <<env, queueVars, mutex, cellVars, imuVars, helperVars>>

Next ==
  \/ GpsCallback \/ WheelOdomCallback \/ ImuCallback
  \/ GpsHelper
  \/ Shutdown

Spec == Init /\ [][Next]_vars

\* The steps of a callback that is running, and fair scheduling of both threads:
\* a running callback and the optimizer thread each take their next step when it
\* stays possible.
ImuRunning ==
  \/ ImuPush \/ ImuLock \/ ImuCopyState \/ ImuCopyBias \/ ImuCopyTime
  \/ ImuUnlock \/ ImuPredict

FairInit ==
  /\ InitCommon
  /\ env = [gps |-> 0, imu |-> 0, odom |-> 0,
            gpsMax |-> LiveTime, imuMax |-> LiveTime, odomMax |-> LiveTime]
  /\ m_gpsOptQ = <<>>
  /\ m_ImuOptQ = <<>>
  /\ m_odomOptQ = <<>>
  /\ m_lastImuT = 0
  /\ m_maxQSize = 0
  /\ m_imuMeasurements = <<>>

FairSpec == FairInit /\ [][Next]_vars /\ WF_vars(ImuRunning) /\ WF_vars(GpsHelper)

\* The node after the callbacks have filled every queue to QSlack short of its
\* capacity while the optimizer thread has not run yet.  The fixes are stamped
\* first, the wheel odometry next and the inertial samples last, consecutively;
\* each stream goes on with consecutive stamps until it has produced one message
\* more than its queue holds.
GpsT0 == 1 - 1
OdomT0 == GpsQCap + 1
ImuT0 == GpsQCap + OdomQCap + 2

QueueInit ==
  /\ InitCommon
  /\ env = [gps |-> GpsT0 + GpsQCap - QSlack, imu |-> ImuT0 + ImuQCap - QSlack,
            odom |-> OdomT0 + OdomQCap - QSlack,
            gpsMax |-> GpsT0 + GpsQCap + 1, imuMax |-> ImuT0 + ImuQCap + 1,
            odomMax |-> OdomT0 + OdomQCap + 1]
  /\ m_gpsOptQ = SeqFromTo(GpsT0 + 1, GpsT0 + GpsQCap - QSlack)
  /\ m_ImuOptQ = SeqFromTo(ImuT0 + 1, ImuT0 + ImuQCap - QSlack)
  /\ m_odomOptQ = SeqFromTo(OdomT0 + 1, OdomT0 + OdomQCap - QSlack)
  /\ m_lastImuT = ImuT0 + ImuQCap - QSlack
  /\ m_maxQSize = ImuQCap - QSlack - 1
  /\ m_imuMeasurements = SeqFromTo(ImuT0 + 1, ImuT0 + ImuQCap - QSlack)

QueueSpec == QueueInit /\ [][Next]_vars

\* ==================================================================== claims

\* A snapshot (state, bias, time) is one correction's: the constructor's values,
\* or the state and bias solved for one epoch k with the time of that cycle.
OneCorrection(st, bi, t) ==
  /\ st = bi
  /\ \/ st = 0 /\ t = 0
     \/ st \in 1..Len(epochTime) /\ t = epochTime[st]

\* C1: the snapshot ImuCallback copies out of the shared cell, and the anchor of
\* every prediction it publishes, consists of three values written by one and the
\* same correction cycle (or the three initial values), in every interleaving of
\* ImuCallback with GpsHelper.
C1_SnapshotOfOneCorrection ==
  /\ cb.pc \in {"unlock", "predict"}
       => OneCorrection(cb.optimizedState, cb.optimizedBias, cb.optimizedTime)
  /\ \A i \in 1..Len(posePub) :
       OneCorrection(posePub[i].state, posePub[i].bias, posePub[i].time)

\* C1 witness: the callback had to wait for the writer in the middle of its three
\* assignments, and a callback holds a snapshot of a correction.
C1_Witness_WaitsForWriter ==
  cb.pc = "lock" /\ h.pc = "writeBias" /\ mutex = "helper"

\* C3: whenever m_optimizedStateMutex is held, its holder is inside the three-field
\* copy (ImuCallback) or the three-field assignment (GpsHelper); GpsHelper never
\* holds it in the backend calls, the inertial integration, a blocking pop or the
\* rate-limit sleep.
C3_MutexHeldOnlyForCopy ==
  /\ mutex = "imu" => cb.pc \in {"copyState", "copyBias", "copyTime", "unlock"}
  /\ mutex = "helper" => h.pc \in {"writeState", "writeBias", "writeTime", "unlock"}
  /\ h.pc \in {"popFix", "drainFix", "boot", "bootPopImu", "bootImuLoop", "sleep",
               "tossOdom", "popFirstOdom", "popLastOdom", "odomLoop", "imuLoop",
               "update", "top", "selOdom", "finish"}
       => mutex # "helper"

\* C3 witness: the callback holds the mutex while GpsHelper is in the backend call.
C3_Witness_ReaderHoldsDuringUpdate ==
  mutex = "imu" /\ cb.pc = "copyBias" /\ h.pc = "update"

\* C6: while no corrected state has been written to the shared cell
\* (m_optimizedTime is 0), nothing has been published on "pose" or "time_delays".
C6_NoOutputBeforeFirstCorrection ==
  m_optimizedTime = 0 => posePub = <<>> /\ timePub = <<>>

\* C6 witness: two callbacks have run to their end with the cell still unset.
C6_Witness_TwoEarlyReturns ==
  /\ m_optimizedTime = 0
  /\ Len(m_imuMeasurements) = 2
  /\ cb.pc = "idle"
  /\ posePub = <<>>

\* C7: bootstrap runs once and seeds key 0 with zero velocity; the keys given to
\* the backend are 0, 1, 2, ... without gap or repeat; m_biasKey equals
\* m_poseVelKey, which is the number of completed correction cycles.
C7_EpochKeys ==
  /\ m_biasKey = m_poseVelKey
  /\ m_isam.keys = SeqFromTo(0, Len(m_isam.keys) - 1)
  /\ m_isam.keys # <<>> => m_isam.vel0 = 0 /\ m_gotFirstFix
  /\ m_isam.keys = <<>> => m_poseVelKey = 0
  /\ m_isam.keys # <<>> =>
       Len(m_isam.keys) - 1 =
         m_poseVelKey + (IF h.pc \in {"lock", "writeState", "writeBias", "writeTime",
                                       "unlock", "finish"} THEN 1 ELSE 0)

\* C7 witness: two epochs beyond the bootstrap have been solved and completed.
C7_Witness_TwoCycles ==
  m_poseVelKey = 2 /\ m_isam.keys = <<0, 1, 2>> /\ h.pc = "sleep"

\* C8: in a STEADY iteration, a non-empty absolute-fix queue at trigger selection
\* gives the absolute trigger, whatever the relative-motion queue holds; the
\* relative trigger is chosen only when the absolute-fix queue was found empty and
\* the relative-motion queue non-empty.
SteadyCyclePcs ==
  {"tossOdom", "popFirstOdom", "popLastOdom", "odomLoop", "imuLoop", "update",
   "lock", "writeState", "writeBias", "writeTime", "unlock", "finish"}

C8_AbsoluteTriggerFirst ==
  /\ h.pc \in SteadyCyclePcs => (h.sawGps > 0 <=> h.usingGPS)
  /\ h.pc \in SteadyCyclePcs => (h.usingGPS <=> ~h.usingOdom)
  /\ h.usingOdom => h.sawGps = 0 /\ h.sawOdom > 0
  /\ h.pc = "selOdom" => h.sawGps = 0
  /\ m_gotFirstFix /\ h.pc \in {"popFix", "drainFix"} => h.sawGps > 0

\* C8 witness: both queues held samples at trigger selection of a STEADY iteration
\* and the cycle runs on the absolute fix.
C8_Witness_BothPending ==
  /\ h.pc = "tossOdom" /\ h.usingGPS /\ h.sawGps > 0
  /\ Len(m_odomOptQ) > 0

\* C2: under fair scheduling every ImuCallback invocation runs to its end,
\* whatever GpsHelper is doing; a running callback can always take its next step
\* (no blocking pop, no sleep) except while it waits for the mutex that
\* GpsHelper holds.
C2_ImuCallbackCompletes ==
  /\ [](cb.pc \notin {"idle", "lock"} => ENABLED ImuRunning)
  /\ [](cb.pc = "lock" => ENABLED ImuRunning \/ mutex = "helper")
  /\ (cb.pc # "idle") ~> (cb.pc = "idle")

\* C2 witness: a callback waits for the mutex while GpsHelper writes the cell.
C2_Witness_BlockedOnMutex ==
  cb.pc = "lock" /\ mutex = "helper" /\ h.pc = "writeTime"

\* C4: the depth of the absolute-fix, inertial and relative-motion queue never
\* exceeds 40, 400 and 100; a push on a full queue is refused (counted as
\* dropped), leaves the queued elements and their order as they were, and the
\* producer goes on: the callback is never disabled by a full queue.
C4_QueuesBounded ==
  /\ [](Len(m_gpsOptQ) <= 40 /\ Len(m_ImuOptQ) <= 400 /\ Len(m_odomOptQ) <= 100)
  /\ [](CanDispatch /\ env.gps < env.gpsMax => ENABLED GpsCallback)
  /\ [](CanDispatch /\ env.odom < env.odomMax => ENABLED WheelOdomCallback)
  /\ [](cb.pc = "push" => ENABLED ImuPush)
  /\ [][/\ (env.gps' # env.gps /\ Len(m_gpsOptQ) = 40)
             => m_gpsOptQ' = m_gpsOptQ /\ dropped'.gps = dropped.gps + 1
        /\ (env.odom' # env.odom /\ Len(m_odomOptQ) = 100)
             => m_odomOptQ' = m_odomOptQ /\ dropped'.odom = dropped.odom + 1
        /\ (cb.pc = "push" /\ cb'.pc # "push" /\ Len(m_ImuOptQ) = 400)
             => /\ m_ImuOptQ' = m_ImuOptQ
                /\ dropped'.imu = dropped.imu + 1
                /\ cb'.pc = "lock"
        /\ (env.gps' # env.gps /\ Len(m_gpsOptQ) < 40)
             => m_gpsOptQ' = Append(m_gpsOptQ, env.gps') /\ dropped' = dropped
        /\ (env.odom' # env.odom /\ Len(m_odomOptQ) < 100)
             => m_odomOptQ' = Append(m_odomOptQ, env.odom') /\ dropped' = dropped
        /\ (cb.pc = "push" /\ cb'.pc # "push" /\ Len(m_ImuOptQ) < 400)
             => m_ImuOptQ' = Append(m_ImuOptQ, cb.imu) /\ dropped' = dropped
       ]_vars

\* C4 witness: each of the three queues is full and has refused one push.
C4_Witness_PushRefused ==
  /\ dropped.gps = 1 /\ dropped.imu = 1 /\ dropped.odom = 1
  /\ Len(m_gpsOptQ) = 40 /\ Len(m_ImuOptQ) = 400 /\ Len(m_odomOptQ) = 100

\* C5 (as claimed): every published prediction composes its anchor with the
\* integration, in order, of exactly the buffered inertial samples stamped at or
\* after the anchor's time.
C5_DeltaIsBufferedSinceAnchor ==
  \A i \in 1..Len(posePub) :
    [j \in 1..Len(posePub[i].delta) |-> posePub[i].delta[j].stamp]
      = SelectSeq(posePub[i].buffer, LAMBDA st : st >= posePub[i].time)

\* C9: after a backend fault the shared cell holds what it held when the cycle
\* began, the epoch keys are those the cycle began with, and every snapshot
\* ImuCallback completes after the fault (hence every later prediction that starts
\* from the cell) is that prior anchor.
C9_FaultKeepsCell ==
  /\ [](h.pc = "terminate" =>
          /\ <<m_optimizedState, m_optimizedBias, m_optimizedTime>> = h.cellAtTop
          /\ m_poseVelKey = h.keyAtTop /\ m_biasKey = h.keyAtTop)
  /\ [][h.pc = "terminate" =>
          /\ UNCHANGED <<m_optimizedState, m_optimizedBias, m_optimizedTime,
                         m_poseVelKey, m_biasKey>>
          /\ (cb.pc = "copyTime" /\ cb'.pc = "unlock")
               => <<cb'.optimizedState, cb'.optimizedBias, cb'.optimizedTime>>
                    = h.cellAtTop
          /\ (cb.pc = "copyTime" /\ cb'.pc = "unlock")
               => cb'.optimizedState = m_poseVelKey
       ]_vars

\* C9 witness: the backend faulted in the cycle after the first correction and a
\* prediction anchored to that first correction has been published since.
C9_Witness_PredictsAfterFault ==
  /\ h.pc = "terminate" /\ m_poseVelKey = 1 /\ m_optimizedState = 1
  /\ cb.pc = "predict" /\ cb.optimizedState = 1

\* C10 (as claimed): after the shutdown signal GpsHelper eventually leaves its
\* loop, and a cycle whose backend call had not returned when the signal came
\* does not write the shared cell.
C10_ShutdownEndsLoop ==
  /\ (~rosOk) ~> (h.pc \in {"done", "terminate"})
  /\ [][h.lateCycle =>
          UNCHANGED <<m_optimizedState, m_optimizedBias, m_optimizedTime>>]_vars

\* C11: once the shared cell holds a corrected state it holds one for good; the
\* snapshot of an invocation is the cell's content; every invocation whose
\* snapshot is a corrected state publishes exactly one output, stamped with its
\* sample's stamp, on "pose" and on "time_delays"; the published stamps increase,
\* so no sample is answered twice or out of order.
C11_OneOutputPerSample ==
  /\ [](/\ Len(timePub) = Len(posePub)
        /\ \A i \in 1..Len(posePub) : timePub[i].x = posePub[i].stamp
        /\ \A i \in 1..(Len(posePub) - 1) : posePub[i].stamp < posePub[i + 1].stamp)
  /\ [][m_optimizedTime # 0 => m_optimizedTime' # 0]_vars
  /\ [][cb.pc = "copyTime" /\ cb'.pc = "unlock"
          => cb'.optimizedTime = m_optimizedTime]_vars
  /\ [][cb.pc = "predict" /\ cb'.pc = "idle" /\ cb.optimizedTime # 0
          => /\ Len(posePub') = Len(posePub) + 1
             /\ SubSeq(posePub', 1, Len(posePub)) = posePub
             /\ posePub'[Len(posePub')].stamp = cb.imu]_vars

\* C11 witness: two successive samples have each been answered by one output.
C11_Witness_TwoOutputs ==
  /\ cb.pc = "idle" /\ Len(posePub) = 2
  /\ posePub[1].stamp + 1 = posePub[2].stamp /\ posePub[2].stamp = env.imu

\* The correction loop's output: for every STEADY epoch k its key, the time the
\* cycle wrote to the cell (curTime), and the trigger (absolute when the batch
\* holds a GPSFactor on G(k), lines 443-455).
EpochKind(k) ==
  IF [type |-> "gps", from |-> k, to |-> k] \in m_isam.factors
  THEN "absolute" ELSE "relative"

EpochLog == [k \in 1..Len(epochTime) |-> <<k, epochTime[k], EpochKind(k)>>]

\* Every message of the three streams has been delivered and handled.
TraceDelivered ==
  /\ env.gps = env.gpsMax /\ env.imu = env.imuMax /\ env.odom = env.odomMax
  /\ cb.pc = "idle"

\* C12 (as claimed): with the streams fixed (stamps 1..MaxTime on each), the epochs
\* the correction loop produces are the same in every interleaving: the first
\* STEADY epoch is the one of the run C12_Witness_RelativeFirst reaches, key 1
\* at time 1 on the relative trigger.
C12_SameEpochsInEveryInterleaving ==
  TraceDelivered /\ Len(epochTime) >= 1 => EpochLog[1] = <<1, 1, "relative">>

\* C12 witness: a run of the same streams in which the first STEADY epoch is
\* key 1 at time 1 on the relative trigger.
C12_Witness_RelativeFirst ==
  TraceDelivered /\ Len(epochTime) >= 1 /\ EpochLog[1] = <<1, 1, "relative">>

\* C13 (as claimed): for each of the three queues, every push refused because the
\* queue is full has surfaced one warning, and the callback has gone on: a
\* refused push of ImuCallback leaves it at its next statement, and the spin
\* thread can dispatch again after a refused push of the other two.
C13_DropSurfacesWarning ==
  /\ [](warned.gps = dropped.gps /\ warned.imu = dropped.imu
        /\ warned.odom = dropped.odom)
  /\ [][dropped' # dropped => cb'.pc \in {"idle", "lock"}]_vars

\* C14: with inertial stamps increasing, the anchor time of every published
\* prediction is at most the stamp of the sample that triggered it and at most
\* the stamp of every sample integrated into its delta, and the published time
\* since the last correction (delays.z) is not negative.
C14_AnchorNotAfterSamples ==
  \A i \in 1..Len(posePub) :
    /\ posePub[i].time <= posePub[i].stamp
    /\ \A j \in 1..Len(posePub[i].delta) : posePub[i].time <= posePub[i].delta[j].stamp
    /\ timePub[i].z >= 0
    /\ timePub[i].z = posePub[i].stamp - posePub[i].time

\* C14 witness: two predictions on successive anchors, the second published by
\* the sample stamped with the anchor's own time, its delta rebuilt.
C14_Witness_AnchorMoved ==
  /\ Len(posePub) >= 2
  /\ posePub[1].time < posePub[2].time
  /\ posePub[2].time = posePub[2].stamp
  /\ Len(posePub[2].delta) >= 1

\* The stamp of the fix the bootstrap used: curTime while the bootstrap reads the
\* inertial queue (lines 373-380), prevTime from line 382 on.
BootTime == IF h.pc \in {"bootPopImu", "bootImuLoop"} THEN h.curTime ELSE h.prevTime

\* C15 (as claimed): from the moment the bootstrap has submitted the priors until
\* the first STEADY correction, the shared cell holds the first fix's stamp, and
\* every snapshot ImuCallback completes in that period is a set anchor (so that
\* the invocation publishes).
C15_BootstrapFillsCell ==
  /\ [](m_isam.keys = <<0>> /\ epochTime = <<>>
          => m_optimizedTime = BootTime /\ m_optimizedTime # 0)
  /\ [][m_isam.keys = <<0>> /\ cb.pc = "copyTime" /\ cb'.pc = "unlock"
          => cb'.optimizedTime # 0]_vars

\* C16 (as claimed): a STEADY iteration that finds both the absolute-fix queue
\* and the relative-motion queue empty at trigger selection goes to the blocking
\* pop on the absolute-fix queue; and the loop comes back to its top only out of
\* the rate-limit sleep (every other way through an iteration passes a blocking
\* pop, and those iterations end with the sleep too).
C16_IterationSuspends ==
  /\ [][h.pc = "top" /\ h'.pc # "top" /\ rosOk /\ m_gotFirstFix
          /\ Len(m_gpsOptQ) = 0 /\ Len(m_odomOptQ) = 0
          => h'.pc = "popFix"]_vars
  /\ [][h.pc = "selOdom" /\ h'.pc # "selOdom" => h'.pc = "tossOdom"]_vars
  /\ [][h.pc # "top" /\ h'.pc = "top" => h.pc = "sleep"]_vars

\* C17: a cycle on the absolute trigger that found k >= 1 fixes queued has taken
\* all of them off the queue; the fix it uses is the last one it took, which is
\* the newest of the k or a still newer one pushed during the drain; that fix's
\* stamp is the trigger time; the drain ends on an empty queue, so afterwards
\* the queue holds only fixes newer than the one used; and the batch holds one
\* absolute observation, on the new key.
C17_LatestFixWins ==
  /\ [](h.pc \in SteadyCyclePcs /\ h.usingGPS
          => /\ h.sawGps >= 1 /\ h.fix # 0
             /\ h.fix >= h.sawFix
             /\ h.curTime = h.fix
             /\ \A i \in 1..Len(m_gpsOptQ) : m_gpsOptQ[i] > h.fix)
  /\ [][h.pc = "drainFix" /\ h'.pc # "drainFix"
          => m_gpsOptQ = <<>> /\ h'.fix = h.fix /\ h'.usingGPS]_vars
  /\ [][h.pc = "drainFix" /\ h'.pc = "drainFix" /\ h' # h
          => h'.fix = Front(m_gpsOptQ) /\ m_gpsOptQ' = Tail(m_gpsOptQ)]_vars
  /\ [][h.pc = "update" /\ h'.pc = "lock" /\ h.usingGPS
          => /\ epochTime' = Append(epochTime, h.fix)
             /\ {f \in m_isam'.factors \ m_isam.factors : f.type = "gps"}
                  = {[type |-> "gps", from |-> m_poseVelKey + 1,
                      to |-> m_poseVelKey + 1]}]_vars

\* C17 witness: three fixes were queued at trigger selection; the cycle has
\* drained them and runs on the newest of the three.
C17_Witness_ThreeQueued ==
  /\ h.pc = "update" /\ h.usingGPS
  /\ h.sawGps = 3 /\ h.fix = h.sawFix /\ m_gpsOptQ = <<>>

\* C18 (as claimed): in a STEADY cycle, neither endpoint of the relative-pose
\* observation the cycle builds (firstOdom, lastOdom) is a relative-motion sample
\* stamped before the previous epoch's time (prevTime), also when the queue ran
\* empty in the discard loop and the endpoints arrived afterwards.
C18_NoStaleOdomEndpoint ==
  (h.pc \in SteadyCyclePcs /\ \E f \in h.newFactors : f.type = "odom")
    => h.firstOdom >= h.prevTime /\ h.lastOdom >= h.prevTime

\* C19 (as claimed): the batch of a cycle holds a relative-pose observation only
\* if the cycle's trigger is relative; the batch of a cycle on the absolute
\* trigger holds none.
C19_OdomFactorOnlyOnRelativeTrigger ==
  h.pc \in SteadyCyclePcs
    => \A f \in h.newFactors : f.type = "odom" => h.usingOdom /\ ~h.usingGPS

\* Stamps of the samples a cycle has integrated into pre_int_data, in order.
Integrated == [j \in 1..Len(h.pre_int_data) |-> h.pre_int_data[j].stamp]

\* C20 (as claimed): when a STEADY cycle has finished its inertial integration,
\* with P the previous epoch's time (prevTime) and C the trigger time (curTime),
\* the samples it integrated are exactly the samples taken from the inertial
\* queue stamped strictly between P and C, in queue order (the queue delivers
\* the stamps 1, 2, 3, ... without loss here), and the sample that ended the
\* window, stamped C or later, is kept in m_lastIMU for the next cycle.
C20_IntegratesStrictlyBetween ==
  h.pc = "update"
    => /\ Integrated = SeqFromTo(h.prevTime + 1, h.curTime - 1)
       /\ m_lastIMU >= h.curTime
       /\ m_lastIMU = (IF Integrated = <<>> THEN m_lastIMU ELSE Back(Integrated) + 1)

\* C21 (as claimed): the time each completed correction writes to the shared
\* cell is greater than the previous epoch's time (prevTime: the bootstrap
\* fix's stamp, then the time of the correction before), so the times of the
\* successive corrections strictly increase.
C21_CellTimeIncreases ==
  /\ [](\A k \in 2..Len(epochTime) : epochTime[k] > epochTime[k - 1])
  /\ [][h.pc = "writeTime" /\ h'.pc = "unlock"
          => m_optimizedTime' > h.prevTime /\ m_optimizedTime' > m_optimizedTime]_vars

\* The inertial sample that closes the cycle's window (stamped curTime or later)
\* has been pushed already, so the integration loop at lines 422-430 will not
\* wait for the inertial stream.
ImuWindowClosed ==
  \/ m_lastIMU >= h.curTime
  \/ \E i \in 1..Len(m_ImuOptQ) : m_ImuOptQ[i] >= h.curTime

\* C22 (as claimed): a STEADY cycle triggered by an absolute fix never waits on
\* the relative-motion queue: it is never at a blocking pop of m_odomOptQ with
\* that queue empty; and under fair scheduling, once the inertial samples it
\* needs have arrived, it runs through the backend call to the end of the cycle
\* (or ends in a backend fault), whether or not wheel odometry ever arrives.
C22_AbsoluteCycleCompletes ==
  /\ [](h.usingGPS /\ h.pc \in {"popFirstOdom", "popLastOdom"} => CanPop(m_odomOptQ))
  /\ (h.usingGPS /\ h.pc = "tossOdom" /\ ImuWindowClosed)
       ~> (h.pc \in {"sleep", "terminate"})

\* C23 (as claimed): in the batch a STEADY cycle has submitted for the new epoch
\* m_poseVelKey + 1, every relative observation (inertial, bias-continuity,
\* relative-pose) goes from the epoch m_poseVelKey to the epoch m_poseVelKey + 1,
\* none relates an epoch's variable to itself, and every observation refers only
\* to keys the backend holds after the update.
C23_BatchLinksEpochs ==
  h.pc \in {"lock", "writeState", "writeBias", "writeTime", "unlock", "finish"}
    => \A f \in h.newFactors :
         /\ f.type \in {"imu", "bias", "odom"}
              => f.from = m_poseVelKey /\ f.to = m_poseVelKey + 1 /\ f.from # f.to
         /\ {f.from, f.to} \subseteq Range(m_isam.keys)

\* C24 (as claimed): the length of ImuCallback's private buffer m_imuMeasurements
\* never exceeds a constant N, also while no correction has landed and while
\* GpsHelper is blocked or has stopped.  N is taken as the capacity of the
\* inertial queue, the only bound the program puts on pending inertial samples.
C24_ImuBufferBounded ==
  Len(m_imuMeasurements) <= ImuQCap

====
